---- MODULE Spec2Model ----
(***************************************************************************)
(* State-machine model of the AI Interface plugin (src/main.ts): the       *)
(* service registry, the response normalizer parseResponse, the            *)
(* orchestrator invokeAI and the global API object installed by onload.    *)
(*                                                                         *)
(* JavaScript values are modelled as follows.  A string that is only       *)
(* compared or tested for emptiness (ids, model names, API keys) is a TLA+ *)
(* string, "" being the empty string.  A string that is trimmed (a field   *)
(* of a decoded response) is a sequence of one-character strings.  A       *)
(* message is a TLA+ string built by concatenation.                        *)
(***************************************************************************)
EXTENDS Integers, Sequences, FiniteSets, TLC

VARIABLES
    settings,   \* this.settings: the top-level fields; services is a reference
    regs,       \* heap of services objects: reference -> entries in key order
    svcs,       \* heap of AIServiceConfig objects: reference -> fields
    call,       \* the invokeAI call: its position, captured locals and outcome
    net,        \* the network primitive: the request issued and its signal
    notices,    \* number of Notice objects created (user-visible notifications)
    api,        \* outcome of the last synchronous call through the global API
    held,       \* the object a consumer got from getCurrentConfiguration
    tab,        \* the settings tab: what display() rendered, handlers awaiting a save
    pIn,        \* input of parseResponse under the normalizer specification
    pOut,       \* its result
    configChangeCallbacks,  \* the Set of registered callbacks, in insertion order
    handles,    \* the unsubscribe functions onConfigurationChange has returned
    saved,      \* outcome of the last saveSettings that finished
    masked,     \* a key and what maskApiKey made of it
    formatted   \* arguments of formatRequestBody and the body it returned

vars == <<settings, regs, svcs, call, net, notices, api, held, tab, pIn, pOut,
          configChangeCallbacks, handles, saved, masked, formatted>>

-----------------------------------------------------------------------------
(* JavaScript values of a decoded JSON body *)

\* undefined (an absent property)
Undef == [t |-> "undef", s |-> <<>>]

\* a string value, as a sequence of characters
Str(s) == [t |-> "str", s |-> s]

\* a truthy value that is not a string (a non-zero number, an array, an object)
NonStr == [t |-> "obj", s |-> <<>>]

\* JavaScript truthiness of a value: undefined and "" are falsy
Truthy(v) == v.t = "obj" \/ (v.t = "str" /\ v.s # <<>>)

\* a || b
OrElse(a, b) == IF Truthy(a) THEN a ELSE b

IsSpace(c) == c = " "

RECURSIVE TrimStart(_)
TrimStart(s) ==
    IF s # <<>> /\ IsSpace(Head(s)) THEN TrimStart(Tail(s)) ELSE s

RECURSIVE TrimEnd(_)
TrimEnd(s) ==
    IF s # <<>> /\ IsSpace(s[Len(s)]) THEN TrimEnd(SubSeq(s, 1, Len(s) - 1)) ELSE s

\* the string left as it is
TrimNothing(s) == s

\* String.prototype.trim
Trim(s) == TrimEnd(TrimStart(s))

-----------------------------------------------------------------------------
(* parseResponse: src/main.ts 293-392 *)

Providers ==
    {"openai", "anthropic", "google", "meta", "mistral", "azure", "cohere", "qwen",
     "deepseek", "perplexity", "ollama", "lmstudio", "localai", "koboldai", "custom"}

\* The property paths parseResponse reads.  "choices0" is choices[0], and so on.
\* "content0.text" is content[0].text: there the top-level content is an array.
Paths ==
    {"choices0.message.content", "output.text", "response", "message.content",
     "text", "content", "choices0.content", "choices0.text", "content0.text",
     "candidates0.content.parts0.text", "generations0.text", "results0.text"}

\* the JSON value null as a decoded body
NullData == [q \in Paths |-> [t |-> "null", s |-> <<>>]]

IsNull(data) == data = NullData

\* data.content as the custom probe sees it: an array when content[0].text exists
TopContent(data) ==
    IF data["content0.text"] # Undef THEN NonStr ELSE data["content"]

\* outcome of evaluating an expression: a value returned or an exception thrown
Ret(s) == [k |-> "ret", v |-> s]
Throw(m) == [k |-> "throw", v |-> m]

\* the message of the TypeError raised by a property access on undefined or
\* null, or by calling .trim on a value that has none
TypeErrorMsg == "TypeError"

UnableMsg == "Unable to parse response format"

\* x.trim() where x is the value v: a TypeError unless v is a string
TrimCall(v) == IF v.t = "str" THEN Ret(Trim(v.s)) ELSE Throw(TypeErrorMsg)

\* data.a[0].b.c.trim() without optional chaining: the value at path q, trimmed
Strict(data, q) == IF IsNull(data) THEN Throw(TypeErrorMsg) ELSE TrimCall(data[q])

\* x?.trim(): undefined when x is undefined, otherwise the call
OptTrim(v) == IF v = Undef THEN Ret(Undef) ELSE
              IF v.t = "str" THEN Ret(Str(Trim(v.s))) ELSE Throw(TypeErrorMsg)

\* the ollama case without its last alternative: a TypeError when neither
\* field gives a text
ParseOllamaStrict(data) ==
    IF IsNull(data) THEN Throw(TypeErrorMsg) ELSE
    LET a == OptTrim(data["message.content"]) IN
    IF a.k = "throw" THEN a ELSE
    IF Truthy(a.v) THEN Ret(a.v.s) ELSE
    LET b == OptTrim(data["response"]) IN
    IF b.k = "throw" THEN b ELSE
    IF Truthy(b.v) THEN Ret(b.v.s) ELSE Throw(TypeErrorMsg)

\* case 'ollama' (331): data.message?.content?.trim() || data.response?.trim() || ''
ParseOllama(data) ==
    IF IsNull(data) THEN Throw(TypeErrorMsg) ELSE
    LET a == OptTrim(data["message.content"]) IN
    IF a.k = "throw" THEN a ELSE
    IF Truthy(a.v) THEN Ret(a.v.s) ELSE
    LET b == OptTrim(data["response"]) IN
    IF b.k = "throw" THEN b ELSE
    IF Truthy(b.v) THEN Ret(b.v.s) ELSE Ret(<<>>)

\* the probe with top-level text and content tried before response
ParseCustomReordered(data) ==
    IF IsNull(data) THEN Throw(TypeErrorMsg) ELSE
    IF Truthy(data["choices0.message.content"])
        THEN TrimCall(data["choices0.message.content"]) ELSE
    IF Truthy(data["output.text"]) THEN TrimCall(data["output.text"]) ELSE
    IF Truthy(data["text"]) \/ Truthy(TopContent(data))
        THEN TrimCall(OrElse(data["text"], TopContent(data))) ELSE
    IF Truthy(data["response"]) THEN TrimCall(data["response"]) ELSE
    IF Truthy(data["message.content"]) THEN TrimCall(data["message.content"]) ELSE
    IF Truthy(data["choices0.content"]) THEN TrimCall(data["choices0.content"]) ELSE
    IF Truthy(data["choices0.text"]) THEN TrimCall(data["choices0.text"]) ELSE
    Throw(UnableMsg)

\* case 'custom' (345-370): the ordered probe
ParseCustom(data) ==
    IF IsNull(data) THEN Throw(TypeErrorMsg) ELSE
    IF Truthy(data["choices0.message.content"])
        THEN TrimCall(data["choices0.message.content"]) ELSE
    IF Truthy(data["output.text"]) THEN TrimCall(data["output.text"]) ELSE
    IF Truthy(data["response"]) THEN TrimCall(data["response"]) ELSE
    IF Truthy(data["message.content"]) THEN TrimCall(data["message.content"]) ELSE
    IF Truthy(data["text"]) \/ Truthy(TopContent(data))
        THEN TrimCall(OrElse(data["text"], TopContent(data))) ELSE
    IF Truthy(data["choices0.content"]) THEN TrimCall(data["choices0.content"]) ELSE
    IF Truthy(data["choices0.text"]) THEN TrimCall(data["choices0.text"]) ELSE
    Throw(UnableMsg)

\* default (372-383): reached by 'azure', the only tag without a case
ParseDefault(data) ==
    IF IsNull(data) THEN Throw(TypeErrorMsg) ELSE
    IF Truthy(data["choices0.message.content"])
        THEN TrimCall(data["choices0.message.content"]) ELSE
    IF Truthy(data["output.text"]) THEN TrimCall(data["output.text"]) ELSE
    IF Truthy(data["response"]) THEN TrimCall(data["response"]) ELSE
    Throw(UnableMsg)

\* the switch (295-384)
ParseSwitch(provider, data) ==
    CASE provider \in {"openai", "meta", "mistral", "deepseek", "perplexity",
                       "lmstudio", "localai"}
            -> Strict(data, "choices0.message.content")
      [] provider = "anthropic" -> Strict(data, "content0.text")
      [] provider = "google" -> Strict(data, "candidates0.content.parts0.text")
      [] provider = "cohere" -> Strict(data, "generations0.text")
      [] provider = "qwen" -> Strict(data, "output.text")
      [] provider = "ollama" -> ParseOllama(data)
      [] provider = "koboldai" -> Strict(data, "results0.text")
      [] provider = "custom" -> ParseCustom(data)
      [] OTHER -> ParseDefault(data)

\* an absent optional property and a present one
None == [some |-> FALSE, v |-> ""]
Some(x) == [some |-> TRUE, v |-> x]

ParsePrefix == "Failed to parse response: "

\* no catch: an exception of the switch leaves parseResponse
CatchParseMissing(r) ==
    IF r.k = "throw"
    THEN [raised |-> TRUE, content |-> <<>>, error |-> None]
    ELSE [raised |-> FALSE, content |-> r.v, error |-> None]

\* catch (385-391): an exception of the switch becomes the error variant.
\* raised tells whether an exception left parseResponse.
CatchParse(r) ==
    IF r.k = "throw"
    THEN [raised |-> FALSE, content |-> <<>>, error |-> Some(ParsePrefix \o r.v)]
    ELSE [raised |-> FALSE, content |-> r.v, error |-> None]

parseResponse(provider, data) == CatchParse(ParseSwitch(provider, data))

-----------------------------------------------------------------------------
(* Settings and the service registry: src/main.ts 3-23, 50-66 *)

\* the value undefined where a string is expected (an id that names nothing)
UNDEFINED == "<undefined>"

\* truthiness of a string-or-undefined value
StrTruthy(s) == s # "" /\ s # UNDEFINED

\* no object
NoRef == 0

\* the largest number of AIServiceConfig objects alive in a run
MaxServices == 3

SvcRefs == 1..MaxServices

\* references of services objects: R0 is the plugin's
RegRefs == {"R0", "R1"}

\* a url as its parts, so that String.prototype.includes can be computed
OpenAIUrl == <<"https://", "api.openai.com", "/v1/chat/completions">>
OpenRouterUrl == <<"https://", "openrouter.ai", "/api/v1/chat/completions">>
LocalUrl == <<"http://", "localhost", ":11434", "/api/chat">>

\* url.includes(part)
Includes(url, part) == \E i \in 1..Len(url) : url[i] = part

\* a Record<string, string> as a set of <<name, value>> pairs, one per name
Names(h) == {p[1] : p \in h}

\* {...f, ...g}: the entries of g, and those of f under other names
Spread2(f, g) == {p \in f : p[1] \notin Names(g)} \cup g

\* an assignment that leaves an entry already under the name as it is
SetHeaderKeepingExisting(h, name, value) ==
    IF name \in Names(h) THEN h ELSE h \cup {<<name, value>>}

\* h[name] = value
SetHeader(h, name, value) == Spread2(h, {<<name, value>>})

\* DEFAULT_SETTINGS.services['default-openai'] (53-61); isLocal is absent, so falsy
DefaultService ==
    [name |-> "OpenAI Default", url |-> OpenAIUrl, apiKey |-> "", headers |-> {},
     authType |-> "bearer", model |-> "gpt-4-turbo", provider |-> "openai",
     isLocal |-> FALSE]

\* DEFAULT_SETTINGS (50-66): temperature in tenths, timeout in milliseconds
DefaultTemperature == 7
DefaultMaxTokens == 2000
DefaultTimeout == 10000

DefaultSettings ==
    [activeService |-> "default-openai", services |-> "R0",
     temperature |-> DefaultTemperature, maxTokens |-> DefaultMaxTokens,
     timeout |-> DefaultTimeout]

\* DEFAULT_SETTINGS.services (52-62), its one entry being object 1
DefaultRegistry == <<[id |-> "default-openai", ref |-> 1]>>

\* a free slot of the heap of AIServiceConfig objects
Free == [DefaultService EXCEPT !.name = "<free>"]

\* Object.keys(services) in key order
Keys(reg) == [i \in 1..Len(reg) |-> reg[i].id]

\* services[id]: the object under key id, or undefined
Lookup(reg, id) ==
    IF \E i \in 1..Len(reg) : reg[i].id = id
    THEN reg[CHOOSE i \in 1..Len(reg) : reg[i].id = id].ref
    ELSE NoRef

\* find returning the last entry that satisfies the test instead of the first
FindLast(reg, heap, m) ==
    {i \in 1..Len(reg) :
        /\ heap[reg[i].ref].model = m
        /\ \A j \in (i + 1)..Len(reg) : heap[reg[j].ref].model # m}

\* the entries Object.entries(...).find (400-402) may return: the first whose
\* service satisfies the test, as a set of at most one index
FindFirst(reg, heap, m) ==
    {i \in 1..Len(reg) :
        /\ heap[reg[i].ref].model = m
        /\ \A j \in 1..(i - 1) : heap[reg[j].ref].model # m}

-----------------------------------------------------------------------------
(* The global API object: src/main.ts 87-97, 104-111 *)

\* {...this.settings} (88): a new object with the same top-level values; the
\* value of services is the reference, so the services object is shared
getCurrentConfiguration(s) ==
    [activeService |-> s.activeService, services |-> s.services,
     temperature |-> s.temperature, maxTokens |-> s.maxTokens,
     timeout |-> s.timeout]

\* isConfigured (104-111): a boolean, or the TypeError of reading isLocal of
\* undefined when the active id names no entry
isConfigured(s, reg, heap) ==
    LET activeService == Lookup(reg, s.activeService) IN
    IF activeService = NoRef THEN Throw(FALSE) ELSE
    IF heap[activeService].isLocal THEN Ret(TRUE) ELSE
    Ret(StrTruthy(s.activeService) /\ StrTruthy(heap[activeService].apiKey))

-----------------------------------------------------------------------------
(* The settings tab: src/main.ts 678-727, 954-969 *)

\* services[id] = ref: a new key goes last, an existing key keeps its place
Put(reg, id, ref) ==
    IF \E i \in 1..Len(reg) : reg[i].id = id
    THEN [i \in 1..Len(reg) |-> IF reg[i].id = id THEN [id |-> id, ref |-> ref] ELSE reg[i]]
    ELSE Append(reg, [id |-> id, ref |-> ref])

\* delete services[id]
Remove(reg, id) ==
    LET keep == {i \in 1..Len(reg) : reg[i].id # id}
        nth(k) == CHOOSE i \in keep : Cardinality({j \in keep : j <= i}) = k
    IN  [k \in 1..Cardinality(keep) |-> reg[nth(k)]]

\* Object.keys(services)[0]
FirstKey(reg) == IF Len(reg) > 0 THEN reg[1].id ELSE UNDEFINED

\* the object literal of 714-722
NewService ==
    [name |-> "New Service", url |-> <<>>, apiKey |-> "", headers |-> {},
     authType |-> "bearer", model |-> "", provider |-> "custom", isLocal |-> FALSE]

\* what display() (679-1014) renders: the dropdown's options (689-696), the
\* service object its handlers close over (730) and whether the Delete button
\* exists (731, 955)
Display(s, reg) ==
    [options |-> Keys(reg),
     svc |-> Lookup(reg, s.activeService),
     deleteShown |-> Lookup(reg, s.activeService) # NoRef /\ Len(reg) > 1]

\* the panel as rendered from s and reg, no handler awaiting, the clock at 1
\* quiet counts the handlers awaiting a save that renders nothing afterwards
OpenTab(s, reg) == [shown |-> Display(s, reg), pending |-> 0, quiet |-> 0, clock |-> 1]

-----------------------------------------------------------------------------
(* formatRequestBody: src/main.ts 123-291 *)

ChatMessages(systemPrompt, prompt) ==
    <<[role |-> "system", content |-> systemPrompt],
      [role |-> "user", content |-> prompt]>>

\* the chat shape with the limit under another name
OpenAIBodyRenamed(model, prompt, systemPrompt, temperature, maxTokens) ==
    [model |-> model, messages |-> ChatMessages(systemPrompt, prompt),
     temperature |-> temperature, max_completion_tokens |-> maxTokens]

\* the OpenAI chat shape (133-141 and the cases that repeat it)
OpenAIBody(model, prompt, systemPrompt, temperature, maxTokens) ==
    [model |-> model, messages |-> ChatMessages(systemPrompt, prompt),
     temperature |-> temperature, max_tokens |-> maxTokens]

KoboldMaxContext == 4096

formatRequestBody(provider, model, prompt, systemPrompt, temperature, maxTokens) ==
    CASE provider \in {"openai", "meta", "mistral", "deepseek", "perplexity",
                       "lmstudio", "localai"}
            -> OpenAIBody(model, prompt, systemPrompt, temperature, maxTokens)
      [] provider = "anthropic"
            -> [model |-> model,
                messages |-> <<[role |-> "user", content |-> prompt]>>,
                system |-> systemPrompt, max_tokens |-> maxTokens,
                temperature |-> temperature]
      [] provider = "google"
            -> [contents |-> <<[role |-> "user", parts |-> <<[text |-> prompt]>>]>>,
                generationConfig |->
                    [temperature |-> temperature, maxOutputTokens |-> maxTokens],
                safetySettings |-> <<>>]
      [] provider = "cohere"
            -> [model |-> model, prompt |-> prompt, temperature |-> temperature,
                max_tokens |-> maxTokens, return_likelihoods |-> "NONE"]
      [] provider = "qwen"
            -> [model |-> model,
                input |-> [messages |-> ChatMessages(systemPrompt, prompt)],
                parameters |-> [temperature |-> temperature, max_tokens |-> maxTokens]]
      [] provider = "ollama"
            -> [model |-> model, messages |-> ChatMessages(systemPrompt, prompt),
                stream |-> FALSE,
                options |-> [temperature |-> temperature, num_predict |-> maxTokens]]
      [] provider = "koboldai"
            -> [prompt |-> systemPrompt \o "\n\nUser: " \o prompt \o "\nAssistant:",
                max_length |-> maxTokens, temperature |-> temperature,
                stop_sequence |-> <<"\nUser:", "\nHuman:">>,
                max_context_length |-> KoboldMaxContext]
      [] OTHER
            -> OpenAIBody(model, prompt, systemPrompt, temperature, maxTokens)

NoFormat ==
    [provider |-> "custom", model |-> "", prompt |-> "", systemPrompt |-> "",
     temperature |-> 0, maxTokens |-> 0, done |-> FALSE, out |-> [none |-> TRUE]]

-----------------------------------------------------------------------------
(* invokeAI, the synchronous part up to the fetch: src/main.ts 394-473 *)

\* an option that was not provided (its property is undefined)
NoneNum == [some |-> FALSE, v |-> 0]

\* o = dflt in a destructuring (419-424): the default applies to undefined only
OrDefault(o, dflt) == IF o.some THEN o.v ELSE dflt

DefaultSystemPrompt == "You are a helpful assistant."

NotConfiguredMsg == "AI Interface is not properly configured"
ApiKeyMsg == "API key is required for this service"

\* 395-408: the service the call uses, as a reference; NoRef is undefined.
\* Reading activeService.model of undefined (399) throws a TypeError.
ResolveService(s, reg, heap, options) ==
    LET activeService == Lookup(reg, s.activeService) IN
    IF ~(options.model.some /\ StrTruthy(options.model.v)) THEN Ret(activeService) ELSE
    IF activeService = NoRef THEN Throw(TypeErrorMsg) ELSE
    IF options.model.v = heap[activeService].model THEN Ret(activeService) ELSE
    LET serviceWithModel == FindFirst(reg, heap, options.model.v) IN
    IF serviceWithModel # {}
    THEN Ret(reg[CHOOSE i \in serviceWithModel : TRUE].ref)
    ELSE Ret(activeService)

\* the authentication headers set without the isLocal test of 433
AuthHeadersIgnoringLocal(h, svc) ==
    CASE svc.authType = "bearer" ->
            LET a == SetHeader(h, "Authorization", "Bearer " \o svc.apiKey) IN
            IF Includes(svc.url, "openrouter.ai")
            THEN SetHeader(SetHeader(a, "HTTP-Referer", "http://localhost:8080"),
                           "X-Title", "Obsidian AI Interface")
            ELSE a
      [] svc.authType = "api-key" ->
            IF svc.provider = "google"
            THEN SetHeader(h, "x-goog-api-key", svc.apiKey)
            ELSE SetHeader(h, "api-key", svc.apiKey)
      [] OTHER -> h

\* the authentication headers with api-key for every provider, google included
AuthHeadersOneName(h, svc) ==
    IF svc.isLocal THEN h ELSE
    CASE svc.authType = "bearer" ->
            LET a == SetHeader(h, "Authorization", "Bearer " \o svc.apiKey) IN
            IF Includes(svc.url, "openrouter.ai")
            THEN SetHeader(SetHeader(a, "HTTP-Referer", "http://localhost:8080"),
                           "X-Title", "Obsidian AI Interface")
            ELSE a
      [] svc.authType = "api-key" -> SetHeader(h, "api-key", svc.apiKey)
      [] OTHER -> h

\* 432-452: the authentication headers set on top of the merged headers
AuthHeaders(h, svc) ==
    IF svc.isLocal THEN h ELSE
    CASE svc.authType = "bearer" ->
            LET a == SetHeader(h, "Authorization", "Bearer " \o svc.apiKey) IN
            IF Includes(svc.url, "openrouter.ai")
            THEN SetHeader(SetHeader(a, "HTTP-Referer", "http://localhost:8080"),
                           "X-Title", "Obsidian AI Interface")
            ELSE a
      [] svc.authType = "api-key" ->
            IF svc.provider = "azure" THEN SetHeader(h, "api-key", svc.apiKey)
            ELSE IF svc.provider = "google"
                 THEN SetHeader(h, "x-goog-api-key", svc.apiKey)
                 ELSE SetHeader(h, "api-key", svc.apiKey)
      [] OTHER -> h

\* 427-452
BuildHeaders(svc) ==
    AuthHeaders(Spread2({<<"Content-Type", "application/json">>}, svc.headers), svc)

\* the request built from the settings and the service alone
BuildRequestIgnoringOptions(s, svc, prompt, options) ==
    [url |-> svc.url, method |-> "POST", headers |-> BuildHeaders(svc),
     body |-> formatRequestBody(svc.provider, svc.model, prompt, DefaultSystemPrompt,
                                s.temperature, s.maxTokens)]

\* 419-424 and 454-473: the request handed to fetch
BuildRequest(s, svc, prompt, options) ==
    [url |-> svc.url, method |-> "POST", headers |-> BuildHeaders(svc),
     body |-> formatRequestBody(svc.provider,
                                OrDefault(options.model, svc.model),
                                prompt,
                                OrDefault(options.systemPrompt, DefaultSystemPrompt),
                                OrDefault(options.temperature, s.temperature),
                                OrDefault(options.maxTokens, s.maxTokens))]

\* the key check skipped for a service whose authType is 'none'
ConfigCheckTrustingAuthType(ref, heap) ==
    IF ref = NoRef THEN Throw(NotConfiguredMsg) ELSE
    IF ~heap[ref].isLocal /\ heap[ref].authType # "none" /\ ~StrTruthy(heap[ref].apiKey)
    THEN Throw(ApiKeyMsg)
    ELSE Ret(ref)

\* 410-417: the configuration checks, made outside the try block
ConfigCheck(ref, heap) ==
    IF ref = NoRef THEN Throw(NotConfiguredMsg) ELSE
    IF ~heap[ref].isLocal /\ ~StrTruthy(heap[ref].apiKey) THEN Throw(ApiKeyMsg) ELSE
    Ret(ref)

\* 395-417: the resolved service, or the exception thrown before the try block
Preflight(s, reg, heap, options) ==
    LET r == ResolveService(s, reg, heap, options) IN
    IF r.k = "throw" THEN r ELSE ConfigCheck(r.v, heap)

-----------------------------------------------------------------------------
(* invokeAI, from the fetch to the outcome: src/main.ts 463-503 *)

\* response.ok
Ok(status) == status >= 200 /\ status <= 299

\* the digits of r / 1000 after the point, for 0 < r < 1000, as JavaScript prints
\* them: no trailing zero
Fraction(r) ==
    LET h == r \div 100
        t == (r \div 10) % 10
        u == r % 10
    IN  IF u # 0 THEN ToString(h) \o ToString(t) \o ToString(u)
        ELSE IF t # 0 THEN ToString(h) \o ToString(t)
        ELSE ToString(h)

\* `${ms / 1000}`
Seconds(ms) ==
    IF ms % 1000 = 0 THEN ToString(ms \div 1000)
    ELSE ToString(ms \div 1000) \o "." \o Fraction(ms % 1000)

\* the timeout printed in milliseconds
TimeoutMsgMillis(ms) == "Request timed out after " \o ToString(ms) \o " seconds"

\* 494
TimeoutMsg(ms) == "Request timed out after " \o Seconds(ms) \o " seconds"

\* the message of the TypeError fetch rejects with on a network failure
NetworkMsg == "Failed to fetch"

\* the message of the SyntaxError response.json() rejects with
SyntaxMsg == "SyntaxError"

\* the embedded message used whenever the body decodes, with no fallback
HttpErrorMsgNoFallback(status, body) ==
    IF body.decodable THEN body.errmsg
    ELSE "HTTP error! status: " \o ToString(status)

\* 478-480: error?.error?.message || `HTTP error! status: ${response.status}`,
\* error being null when the body does not decode
HttpErrorMsg(status, body) ==
    IF body.decodable /\ StrTruthy(body.errmsg) THEN body.errmsg
    ELSE "HTTP error! status: " \o ToString(status)

\* the normalizer's error ignored
AfterParseIgnoringError(result) ==
    IF result.raised THEN Throw(TypeErrorMsg) ELSE Ret(result.content)

\* 483-490: the outcome of a success response whose body decoded to data;
\* an exception leaving parseResponse would propagate like any other
AfterParse(result) ==
    IF result.raised THEN Throw(TypeErrorMsg) ELSE
    IF result.error.some /\ StrTruthy(result.error.v) THEN Throw(result.error.v)
    ELSE Ret(result.content)

NoResult == [state |-> "pending", value |-> <<>>, msg |-> ""]
Resolved(content) == [state |-> "resolved", value |-> content, msg |-> ""]
Rejected(m) == [state |-> "rejected", value |-> <<>>, msg |-> m]

NoOptions ==
    [model |-> None, temperature |-> NoneNum, maxTokens |-> NoneNum,
     systemPrompt |-> None]

\* formattedAs and parsedAs record the provider tags that were passed to
\* formatRequestBody (455) and to parseResponse (484), "" while not yet called
IdleCall ==
    [phase |-> "idle", options |-> NoOptions, svc |-> NoRef, armed |-> 0,
     timerOn |-> FALSE, parsed |-> 0, result |-> NoResult,
     formattedAs |-> "", parsedAs |-> ""]

EmptyObject == [q \in Paths |-> Undef]

NoBody == [decodable |-> FALSE, data |-> EmptyObject, errmsg |-> UNDEFINED]

NoRequest == [url |-> <<>>, method |-> "", headers |-> {}, body |-> [none |-> TRUE]]

IdleNet ==
    [issued |-> 0, req |-> NoRequest, aborted |-> FALSE, status |-> 0, body |-> NoBody]

\* 499-503: the outer catch creates one Notice and rethrows
NoticesAfterCatch(n) == n + 1

\* an exception thrown inside the try block (426-498) reaches the outer catch
FailInTry(m) ==
    /\ notices' = NoticesAfterCatch(notices)
    /\ call' = [call EXCEPT !.phase = "rejected", !.timerOn = FALSE,
                            !.result = Rejected(m)]

Prompt == "hello"

\* a fetch repeated once by the caller
FetchWithRetry(n, req) == [n EXCEPT !.issued = @ + 2, !.req = req, !.aborted = FALSE]

\* 468-473: the one call of fetch, with a new controller's signal
Fetch(n, req) == [n EXCEPT !.issued = @ + 1, !.req = req, !.aborted = FALSE]

\* invokeAI(prompt, options) up to its first await.  An exception of 395-417 is
\* thrown outside the try block: the promise rejects and no Notice is created.
Invoke(options) ==
    /\ call.phase = "idle"
    /\ LET reg == regs[settings.services]
           pre == Preflight(settings, reg, svcs, options)
       IN  IF pre.k = "throw"
           THEN /\ call' = [call EXCEPT !.phase = "rejected", !.options = options,
                                        !.result = Rejected(pre.v)]
                /\ UNCHANGED <<net, notices>>
           ELSE /\ call' = [call EXCEPT !.phase = "fetching", !.options = options,
                                        !.svc = pre.v, !.armed = settings.timeout,
                                        !.timerOn = TRUE,
                                        !.formattedAs = svcs[pre.v].provider]
                /\ net' = Fetch(net, BuildRequest(settings, svcs[pre.v], Prompt, options))
                /\ UNCHANGED notices
    /\ UNCHANGED <<settings, regs, svcs, api, held, tab, pIn, pOut,
                 configChangeCallbacks, handles, saved, masked, formatted>>

\* the fetch promise resolves with a response; 475 disarms the timer and the call
\* awaits response.json() (478 or 483)
NetRespond(status, body) ==
    /\ call.phase = "fetching"
    /\ ~net.aborted
    /\ net' = [net EXCEPT !.status = status, !.body = body]
    /\ call' = [call EXCEPT !.phase = IF Ok(status) THEN "decoding" ELSE "decodingErr",
                            !.timerOn = FALSE]
    /\ UNCHANGED <<settings, regs, svcs, notices, api, held, tab, pIn, pOut,
                 configChangeCallbacks, handles, saved, masked, formatted>>

\* the fetch promise rejects: no connection, refused, invalid url
NetFail ==
    /\ call.phase = "fetching"
    /\ ~net.aborted
    /\ FailInTry(NetworkMsg)
    /\ UNCHANGED <<settings, regs, svcs, net, api, held, tab, pIn, pOut,
                 configChangeCallbacks, handles, saved, masked, formatted>>

\* 465: the timer fires and aborts the controller
TimerFire ==
    /\ call.phase = "fetching"
    /\ call.timerOn
    /\ net' = [net EXCEPT !.aborted = TRUE]
    /\ call' = [call EXCEPT !.timerOn = FALSE]
    /\ UNCHANGED <<settings, regs, svcs, notices, api, held, tab, pIn, pOut,
                 configChangeCallbacks, handles, saved, masked, formatted>>

\* the fetch promise rejects with an AbortError; 492-495 reads settings.timeout
FetchAbort ==
    /\ call.phase = "fetching"
    /\ net.aborted
    /\ FailInTry(TimeoutMsg(settings.timeout))
    /\ UNCHANGED <<settings, regs, svcs, net, api, held, tab, pIn, pOut,
                 configChangeCallbacks, handles, saved, masked, formatted>>

\* 477-481: the error body of a non-success response is decoded, or is not
ErrorBodyDecoded ==
    /\ call.phase = "decodingErr"
    /\ FailInTry(HttpErrorMsg(net.status, net.body))
    /\ UNCHANGED <<settings, regs, svcs, net, api, held, tab, pIn, pOut,
                 configChangeCallbacks, handles, saved, masked, formatted>>

\* 483-490: the body of a success response is decoded and normalized with the
\* provider the service object has now
BodyDecoded ==
    /\ call.phase = "decoding"
    /\ IF ~net.body.decodable
       THEN FailInTry(SyntaxMsg)
       ELSE LET r == AfterParse(parseResponse(svcs[call.svc].provider, net.body.data))
            IN  IF r.k = "throw"
                THEN /\ notices' = NoticesAfterCatch(notices)
                     /\ call' = [call EXCEPT !.phase = "rejected", !.parsed = @ + 1,
                                             !.parsedAs = svcs[call.svc].provider,
                                             !.result = Rejected(r.v)]
                ELSE /\ call' = [call EXCEPT !.phase = "resolved", !.parsed = @ + 1,
                                             !.parsedAs = svcs[call.svc].provider,
                                             !.result = Resolved(r.v)]
                     /\ UNCHANGED notices
    /\ UNCHANGED <<settings, regs, svcs, net, api, held, tab, pIn, pOut,
                 configChangeCallbacks, handles, saved, masked, formatted>>

-----------------------------------------------------------------------------
(* Inputs: decoded bodies *)

PresentVals == {Str(x) : x \in {<<>>, <<" ">>, <<"h", "i">>, <<" ", "o", "k", " ">>}} \cup {NonStr}

\* the object whose properties are those of f, every other path being absent
Obj(f) == [q \in Paths |-> IF q \in DOMAIN f THEN f[q] ELSE Undef]

\* the largest number of properties present in a body
MaxFields == 2

Payloads ==
    UNION {{Obj(f) : f \in [S -> PresentVals]} :
              S \in {S \in SUBSET Paths :
                        /\ Cardinality(S) <= MaxFields
                        /\ ~({"content", "content0.text"} \subseteq S)}}
    \cup {NullData}

\* the bodies the network answers with in the orchestrator's specification
NetPayloads ==
    {EmptyObject, NullData,
     Obj("choices0.message.content" :> Str(<<" ", "o", "k", " ">>)),
     Obj("choices0.message.content" :> NonStr),
     Obj("response" :> Str(<<"h", "i">>)),
     Obj("message.content" :> Str(<<" ">>)),
     Obj("content0.text" :> Str(<<"h", "i">>))}

ProviderErrorMsg == "Invalid API key"

Bodies ==
    {NoBody}
    \cup {[decodable |-> TRUE, data |-> d, errmsg |-> UNDEFINED] : d \in NetPayloads}
    \cup {[decodable |-> TRUE, data |-> Obj("response" :> Str(<<"h", "i">>)), errmsg |-> e] :
            e \in {"", ProviderErrorMsg}}

-----------------------------------------------------------------------------
(* Inputs: the settings loadSettings (506-508) produces from a persisted blob *)

Models == {"", "m1", "m2"}

IdOf(i) == "service-" \o ToString(i)

\* the i-th service of a registry that exercises model routing: the services
\* differ in url, key and provider
RoutedService(i, m) ==
    [name |-> "Service " \o ToString(i),
     url |-> <<"https://", "host" \o ToString(i), "/v1">>,
     apiKey |-> "key" \o ToString(i), headers |-> {},
     authType |-> "bearer", model |-> m,
     provider |-> CASE i = 1 -> "openai" [] i = 2 -> "anthropic" [] OTHER -> "custom",
     isLocal |-> FALSE]

\* a heap holding the services cs[1], cs[2], ... and free slots after them
HeapOf(cs) == [r \in SvcRefs |-> IF r <= Len(cs) THEN cs[r] ELSE Free]

\* the services object whose keys, in order, are the first n ids
RegOf(n) == [i \in 1..n |-> [id |-> IdOf(i), ref |-> i]]

\* a loaded state: settings, the plugin's services object and the heap
Loaded(active, timeout, cs) ==
    [settings |-> [DefaultSettings EXCEPT !.activeService = active, !.timeout = timeout],
     reg |-> RegOf(Len(cs)),
     heap |-> HeapOf(cs)]

\* registries of one to MaxServices services with any models, the active id
\* naming one of them or none
RoutingFamily ==
    UNION {
        {Loaded(a, DefaultTimeout, [i \in 1..n |-> RoutedService(i, ms[i])]) :
            ms \in [1..n -> Models], a \in {IdOf(i) : i \in 1..n} \cup {"service-0"}} :
        n \in 1..MaxServices}

AuthTypes == {"bearer", "api-key", "custom", "none"}

\* one active service with any provider, authType, isLocal and key
AuthFamily ==
    {Loaded(IdOf(1), DefaultTimeout,
            <<[DefaultService EXCEPT !.provider = p, !.authType = a, !.isLocal = l,
                                     !.apiKey = k]>>) :
        p \in Providers, a \in AuthTypes, l \in BOOLEAN, k \in {"", "key1"}}

\* the default service with a key, under any timeout
TimeoutFamily ==
    {Loaded(IdOf(1), t, <<[DefaultService EXCEPT !.apiKey = "key1"]>>) :
        t \in {50, 1500, DefaultTimeout}}

LoadedStates == RoutingFamily \cup AuthFamily \cup TimeoutFamily

ModelOptions == {None} \cup {Some(m) : m \in Models}

Options == {[NoOptions EXCEPT !.model = m] : m \in ModelOptions}

-----------------------------------------------------------------------------
(* maskApiKey: src/main.ts 74-78.  A key is a sequence of characters. *)

\* apiKey.slice(0, 4): the first four characters, or all of a shorter key
SliceHead(k) == SubSeq(k, 1, IF Len(k) < 4 THEN Len(k) ELSE 4)

\* apiKey.slice(-4): the last four characters, or all of a shorter key
SliceTail(k) == SubSeq(k, IF Len(k) < 4 THEN 1 ELSE Len(k) - 3, Len(k))

Ellipsis == <<".", ".", ".">>

\* the length test of 76 made with < instead of <=
maskApiKeyStrict(apiKey) ==
    IF apiKey = <<>> THEN <<>> ELSE
    IF Len(apiKey) < 8 THEN apiKey ELSE
    SliceHead(apiKey) \o Ellipsis \o SliceTail(apiKey)

maskApiKey(apiKey) ==
    IF apiKey = <<>> THEN <<>> ELSE
    IF Len(apiKey) <= 8 THEN apiKey ELSE
    SliceHead(apiKey) \o Ellipsis \o SliceTail(apiKey)

NoMask == [key |-> <<>>, done |-> FALSE, out |-> <<>>]

-----------------------------------------------------------------------------
(* Configuration-change callbacks: src/main.ts 72, 93-96, 113-121, 510-513.
   A callback is a function of the consumer, named by a string.  The Set
   configChangeCallbacks is the sequence of its elements in insertion order. *)

Callbacks == {"f", "g"}

\* Set.prototype.has
Has(set, cb) == \E i \in 1..Len(set) : set[i] = cb

\* Set.prototype.add (94): an element already in the Set is not added again
SetAdd(set, cb) == IF Has(set, cb) THEN set ELSE Append(set, cb)

\* Set.prototype.delete (95)
SetDelete(set, cb) == SelectSeq(set, LAMBDA x : x # cb)

\* the call made for the i-th element of the Set: callback({...this.settings})
CallbackCall(set, i, s, throwers) ==
    [callback |-> set[i], arg |-> getCurrentConfiguration(s),
     threw |-> set[i] \in throwers]

\* forEach without the try/catch of 115-119: the first exception ends the
\* iteration and leaves notifyConfigChange
notifyConfigChangeNoCatch(set, s, throwers) ==
    LET throwing == {i \in 1..Len(set) : set[i] \in throwers}
        last == IF throwing = {} THEN Len(set)
                ELSE CHOOSE i \in throwing : \A j \in throwing : i <= j
    IN  [calls |-> [i \in 1..last |-> CallbackCall(set, i, s, throwers)],
         raised |-> throwing # {}]

\* notifyConfigChange (113-121): every element of the Set is called in
\* insertion order; an exception of a callback is caught and logged.
\* throwers are the callbacks that throw in this notification.
notifyConfigChange(set, s, throwers) ==
    [calls |-> [i \in 1..Len(set) |-> CallbackCall(set, i, s, throwers)],
     raised |-> FALSE]

\* saveSettings (510-513) from the moment saveData settles: a rejection of
\* saveData leaves by the await, otherwise the callbacks are notified
saveSettings(persisted, set, s, throwers) ==
    IF ~persisted
    THEN [op |-> "failed", persisted |-> FALSE, calls |-> <<>>, rejected |-> TRUE]
    ELSE LET n == notifyConfigChange(set, s, throwers) IN
         [op |-> "saved", persisted |-> TRUE, calls |-> n.calls, rejected |-> n.raised]

NoSave == [op |-> "none", persisted |-> FALSE, calls |-> <<>>, rejected |-> FALSE]

-----------------------------------------------------------------------------
(* The orchestrator's specification *)

NoParse == [done |-> FALSE, r |-> parseResponse("custom", EmptyObject)]
NoParseInput == [provider |-> "custom", data |-> EmptyObject]
NoApi == [op |-> "none", r |-> Ret(FALSE)]
NoHeld == [some |-> FALSE, v |-> DefaultSettings]

Init ==
    /\ \E l \in LoadedStates :
        /\ settings = l.settings
        /\ regs = [r \in RegRefs |-> IF r = "R0" THEN l.reg ELSE <<>>]
        /\ svcs = l.heap
    /\ call = IdleCall
    /\ net = IdleNet
    /\ notices = 0
    /\ api = NoApi
    /\ held = NoHeld
    /\ tab = OpenTab(settings, regs["R0"])
    /\ pIn = NoParseInput
    /\ pOut = NoParse
    /\ configChangeCallbacks = <<>>
    /\ handles = <<>>
    /\ saved = NoSave
    /\ masked = NoMask
    /\ formatted = NoFormat

Next ==
    \/ \E o \in Options : Invoke(o)
    \/ \E st \in {200, 401, 500}, b \in Bodies : NetRespond(st, b)
    \/ NetFail
    \/ TimerFire
    \/ FetchAbort
    \/ ErrorBodyDecoded
    \/ BodyDecoded

Spec == Init /\ [][Next]_vars

\* the event loop runs a due timer and delivers the rejection of an aborted
\* fetch; nothing obliges the network to answer or a body to finish decoding
SpecLive == Spec /\ WF_vars(TimerFire) /\ WF_vars(FetchAbort)

-----------------------------------------------------------------------------
(* The settings tab's handlers: src/main.ts 689-727, 954-969.  A handler runs
   to its await of saveSettings in one step; display() runs when the save
   is done, and until then the panel shows what it showed. *)

\* the largest number of handlers awaiting saveSettings at once
MaxPending == 2

\* the largest value of Date.now() in a run, the first being 1
MaxClock == 2

\* the references of the heap's free slots
FreeRefs == {r \in SvcRefs : svcs[r] = Free}

\* 699-703: the dropdown's onChange with one of the options it was given
TabSelect(value) ==
    /\ tab.pending < MaxPending
    /\ \E i \in 1..Len(tab.shown.options) : tab.shown.options[i] = value
    /\ settings' = [settings EXCEPT !.activeService = value]
    /\ tab' = [tab EXCEPT !.pending = @ + 1]
    /\ UNCHANGED <<regs, svcs, call, net, notices, api, held, pIn, pOut,
                 configChangeCallbacks, handles, saved, masked, formatted>>

\* 712-726: Add Service
TabAdd ==
    /\ tab.pending < MaxPending
    /\ FreeRefs # {}
    /\ LET id == IdOf(tab.clock)
           r == CHOOSE x \in FreeRefs : \A y \in FreeRefs : x <= y
       IN  /\ svcs' = [svcs EXCEPT ![r] = NewService]
           /\ regs' = [regs EXCEPT ![settings.services] = Put(@, id, r)]
           /\ settings' = [settings EXCEPT !.activeService = id]
    /\ tab' = [tab EXCEPT !.pending = @ + 1]
    /\ UNCHANGED <<call, net, notices, api, held, pIn, pOut,
                 configChangeCallbacks, handles, saved, masked, formatted>>

\* 962-968: Delete, a button the panel has only if it was rendered with more
\* than one service (955)
TabDelete ==
    /\ tab.pending < MaxPending
    /\ tab.shown.deleteShown
    /\ LET serviceId == settings.activeService
           left == Remove(regs[settings.services], serviceId)
       IN  /\ regs' = [regs EXCEPT ![settings.services] = left]
           /\ settings' = [settings EXCEPT !.activeService = FirstKey(left)]
    /\ tab' = [tab EXCEPT !.pending = @ + 1]
    /\ UNCHANGED <<svcs, call, net, notices, api, held, pIn, pOut,
                 configChangeCallbacks, handles, saved, masked, formatted>>

\* a handler's saveSettings is done (510-513): its callbacks are notified and
\* the handler's display() (703, 726, 967) runs
SaveDone(throwers) ==
    /\ tab.pending > 0
    /\ saved' = saveSettings(TRUE, configChangeCallbacks, settings, throwers)
    /\ tab' = IF saved'.rejected
              THEN [tab EXCEPT !.pending = @ - 1]
              ELSE [tab EXCEPT !.pending = @ - 1,
                               !.shown = Display(settings, regs[settings.services])]
    /\ UNCHANGED <<settings, regs, svcs, call, net, notices, api, held, pIn, pOut,
                   configChangeCallbacks, handles, masked, formatted>>

\* a handler's saveData rejects: saveSettings and the handler reject, no
\* callback is called and display() does not run
SaveFail ==
    /\ tab.pending > 0
    /\ saved' = saveSettings(FALSE, configChangeCallbacks, settings, {})
    /\ tab' = [tab EXCEPT !.pending = @ - 1]
    /\ UNCHANGED <<settings, regs, svcs, call, net, notices, api, held, pIn, pOut,
                   configChangeCallbacks, handles, masked, formatted>>

\* time passes
Tick ==
    /\ tab.clock < MaxClock
    /\ tab' = [tab EXCEPT !.clock = @ + 1]
    /\ UNCHANGED <<settings, regs, svcs, call, net, notices, api, held, pIn, pOut,
                 configChangeCallbacks, handles, saved, masked, formatted>>

-----------------------------------------------------------------------------
(* A consumer of window.aiInterfacePlugin: src/main.ts 87-97 *)

\* isConfigured()
CallIsConfigured ==
    /\ api' = [op |-> "isConfigured",
               r |-> isConfigured(settings, regs[settings.services], svcs)]
    /\ UNCHANGED <<settings, regs, svcs, call, net, notices, held, tab, pIn, pOut,
                 configChangeCallbacks, handles, saved, masked, formatted>>

\* const c = getCurrentConfiguration()
CallGetConfiguration ==
    /\ held' = Some(getCurrentConfiguration(settings))
    /\ UNCHANGED <<settings, regs, svcs, call, net, notices, api, tab, pIn, pOut,
                 configChangeCallbacks, handles, saved, masked, formatted>>

\* c.activeService = id
ConsumerSetActive(id) ==
    /\ held.some
    /\ held' = [held EXCEPT !.v.activeService = id]
    /\ UNCHANGED <<settings, regs, svcs, call, net, notices, api, tab, pIn, pOut,
                 configChangeCallbacks, handles, saved, masked, formatted>>

\* c.services = {}
ConsumerReplaceServices ==
    /\ held.some
    /\ held' = [held EXCEPT !.v.services = "R1"]
    /\ regs' = [regs EXCEPT !["R1"] = <<>>]
    /\ UNCHANGED <<settings, svcs, call, net, notices, api, tab, pIn, pOut,
                 configChangeCallbacks, handles, saved, masked, formatted>>

\* c.services[id].apiKey = key, for a key id of c.services
ConsumerSetKey(id, key) ==
    /\ held.some
    /\ Lookup(regs[held.v.services], id) # NoRef
    /\ svcs' = [svcs EXCEPT ![Lookup(regs[held.v.services], id)].apiKey = key]
    /\ UNCHANGED <<settings, regs, held, call, net, notices, api, tab, pIn, pOut,
                 configChangeCallbacks, handles, saved, masked, formatted>>

\* delete c.services[id]
ConsumerDeleteKey(id) ==
    /\ held.some
    /\ Lookup(regs[held.v.services], id) # NoRef
    /\ regs' = [regs EXCEPT ![held.v.services] = Remove(@, id)]
    /\ UNCHANGED <<settings, svcs, held, call, net, notices, api, tab, pIn, pOut,
                 configChangeCallbacks, handles, saved, masked, formatted>>

\* c.services[id] = {...}, a new service object under a new key
ConsumerAddKey(id) ==
    /\ held.some
    /\ Lookup(regs[held.v.services], id) = NoRef
    /\ FreeRefs # {}
    /\ LET r == CHOOSE x \in FreeRefs : \A y \in FreeRefs : x <= y
       IN  /\ svcs' = [svcs EXCEPT ![r] = [NewService EXCEPT !.apiKey = "key9"]]
           /\ regs' = [regs EXCEPT ![held.v.services] = Put(@, id, r)]
    /\ UNCHANGED <<settings, held, call, net, notices, api, tab, pIn, pOut,
                 configChangeCallbacks, handles, saved, masked, formatted>>

\* the ids a consumer names
ConsumerIds == {"default-openai", IdOf(1), "injected"}

ConsumerWrite ==
    \/ \E id \in ConsumerIds : ConsumerSetActive(id)
    \/ ConsumerReplaceServices
    \/ \E id \in ConsumerIds, key \in {"", "key9"} : ConsumerSetKey(id, key)
    \/ \E id \in ConsumerIds : ConsumerDeleteKey(id)
    \/ ConsumerAddKey("injected")

-----------------------------------------------------------------------------
(* The plugin with its settings tab open and a consumer of its API *)

InitTab ==
    /\ settings = DefaultSettings
    /\ regs = [r \in RegRefs |-> IF r = "R0" THEN DefaultRegistry ELSE <<>>]
    /\ \E k \in {"", "key1"} : svcs = HeapOf(<<[DefaultService EXCEPT !.apiKey = k]>>)
    /\ call = IdleCall
    /\ net = IdleNet
    /\ notices = 0
    /\ api = NoApi
    /\ held = NoHeld
    /\ tab = OpenTab(settings, regs["R0"])
    /\ pIn = NoParseInput
    /\ pOut = NoParse
    /\ configChangeCallbacks = <<>>
    /\ handles = <<>>
    /\ saved = NoSave
    /\ masked = NoMask
    /\ formatted = NoFormat

NextTab ==
    \/ \E value \in {"default-openai"} \cup {IdOf(t) : t \in 1..MaxClock} : TabSelect(value)
    \/ TabAdd
    \/ TabDelete
    \/ \E th \in SUBSET Callbacks : SaveDone(th)
    \/ SaveFail
    \/ Tick
    \/ CallIsConfigured
    \/ \E o \in {NoOptions, [NoOptions EXCEPT !.model = Some("m1")]} : Invoke(o)
    \/ \E st \in {200, 500},
          b \in {[decodable |-> TRUE, data |-> EmptyObject, errmsg |-> UNDEFINED]} :
            NetRespond(st, b)
    \/ NetFail
    \/ TimerFire
    \/ FetchAbort
    \/ ErrorBodyDecoded
    \/ BodyDecoded

SpecTab == InitTab /\ [][NextTab]_vars

-----------------------------------------------------------------------------
(* The plugin and a consumer that keeps and writes to the configuration
   object it was given *)

NextApi ==
    \/ CallGetConfiguration
    \/ ConsumerWrite
    \/ CallIsConfigured
    \/ TabAdd
    \/ \E o \in {NoOptions, [NoOptions EXCEPT !.model = Some("m1")]} : Invoke(o)

SpecApi == InitTab /\ [][NextApi]_vars

-----------------------------------------------------------------------------
(* A consumer that registers and deregisters configuration-change callbacks
   while the settings tab saves: src/main.ts 93-96 *)

\* the largest number of onConfigurationChange calls in a run
MaxHandles == 3

\* const unsubscribe = onConfigurationChange(cb) (93-96): the callback joins
\* the Set and the consumer keeps the function returned
Register(cb) ==
    /\ Len(handles) < MaxHandles
    /\ configChangeCallbacks' = SetAdd(configChangeCallbacks, cb)
    /\ handles' = Append(handles, [callback |-> cb, called |-> FALSE])
    /\ UNCHANGED <<settings, regs, svcs, call, net, notices, api, held, tab, pIn,
                   pOut, saved, masked, formatted>>

\* the i-th function returned is called (95): it deletes the callback it closed
\* over from the Set
Unsubscribe(i) ==
    /\ i \in 1..Len(handles)
    /\ configChangeCallbacks' = SetDelete(configChangeCallbacks, handles[i].callback)
    /\ handles' = [handles EXCEPT ![i].called = TRUE]
    /\ UNCHANGED <<settings, regs, svcs, call, net, notices, api, held, tab, pIn,
                   pOut, saved, masked, formatted>>

NextNotify ==
    \/ \E cb \in Callbacks : Register(cb)
    \/ \E i \in 1..MaxHandles : Unsubscribe(i)
    \/ \E value \in {"default-openai"} \cup {IdOf(t) : t \in 1..MaxClock} : TabSelect(value)
    \/ TabAdd
    \/ \E th \in SUBSET Callbacks : SaveDone(th)
    \/ SaveFail

SpecNotify == InitTab /\ [][NextNotify]_vars

-----------------------------------------------------------------------------
(* Calls with per-call options, for every provider dialect *)

\* one service of each provider, with a key and a model
ProviderFamily ==
    {Loaded(IdOf(1), DefaultTimeout,
            <<[DefaultService EXCEPT !.provider = p, !.apiKey = "key1", !.model = "m1"]>>) :
        p \in Providers}

\* two services, so that options.model can route the call
TwoServices ==
    Loaded(IdOf(1), DefaultTimeout, <<RoutedService(1, "m1"), RoutedService(2, "m2")>>)

\* the options of a call: each property absent or present, temperature 0 and
\* the empty strings included
FullOptions ==
    [model : ModelOptions,
     temperature : {NoneNum, Some(0), Some(10)},
     maxTokens : {NoneNum, Some(100)},
     systemPrompt : {None, Some(""), Some("Be terse.")}]

InitOptions ==
    /\ \E l \in ProviderFamily \cup {TwoServices} :
        /\ settings = l.settings
        /\ regs = [r \in RegRefs |-> IF r = "R0" THEN l.reg ELSE <<>>]
        /\ svcs = l.heap
    /\ call = IdleCall
    /\ net = IdleNet
    /\ notices = 0
    /\ api = NoApi
    /\ held = NoHeld
    /\ tab = OpenTab(settings, regs["R0"])
    /\ pIn = NoParseInput
    /\ pOut = NoParse
    /\ configChangeCallbacks = <<>>
    /\ handles = <<>>
    /\ saved = NoSave
    /\ masked = NoMask
    /\ formatted = NoFormat

NextOptions ==
    \/ \E o \in FullOptions : Invoke(o)
    \/ NetFail

SpecOptions == InitOptions /\ [][NextOptions]_vars

-----------------------------------------------------------------------------
(* maskApiKey applied to any key *)

\* the longest key drawn from the alphabet
MaxKeyLen == 9

ExampleKey == <<"s", "k", "-", "A", "B", "C", "D", "E", "F", "G", "H", "I", "J", "K", "L">>

\* every key of at most MaxKeyLen characters, and the one of the documentation
ApiKeys == UNION {[1..n -> {"s", "-"}] : n \in 0..MaxKeyLen} \cup {ExampleKey}

InitMask ==
    /\ settings = DefaultSettings
    /\ regs = [r \in RegRefs |-> IF r = "R0" THEN DefaultRegistry ELSE <<>>]
    /\ svcs = HeapOf(<<DefaultService>>)
    /\ call = IdleCall
    /\ net = IdleNet
    /\ notices = 0
    /\ api = NoApi
    /\ held = NoHeld
    /\ tab = OpenTab(settings, regs["R0"])
    /\ pIn = NoParseInput
    /\ pOut = NoParse
    /\ configChangeCallbacks = <<>>
    /\ handles = <<>>
    /\ saved = NoSave
    /\ masked \in {[key |-> k, done |-> FALSE, out |-> <<>>] : k \in ApiKeys}
    /\ formatted = NoFormat

\* AIInterfacePlugin.maskApiKey(key)
Mask ==
    /\ ~masked.done
    /\ masked' = [masked EXCEPT !.done = TRUE, !.out = maskApiKey(masked.key)]
    /\ UNCHANGED <<settings, regs, svcs, call, net, notices, api, held, tab, pIn,
                   pOut, configChangeCallbacks, handles, saved, formatted>>

SpecMask == InitMask /\ [][Mask]_vars

-----------------------------------------------------------------------------
(* Calls to a local ollama service, answered with any body *)

OllamaService ==
    [DefaultService EXCEPT !.provider = "ollama", !.url = LocalUrl, !.apiKey = "",
                           !.isLocal = TRUE, !.authType = "none"]

InitOllama ==
    /\ LET l == Loaded(IdOf(1), DefaultTimeout, <<OllamaService>>) IN
        /\ settings = l.settings
        /\ regs = [r \in RegRefs |-> IF r = "R0" THEN l.reg ELSE <<>>]
        /\ svcs = l.heap
    /\ call = IdleCall
    /\ net = IdleNet
    /\ notices = 0
    /\ api = NoApi
    /\ held = NoHeld
    /\ tab = OpenTab(settings, regs["R0"])
    /\ pIn = NoParseInput
    /\ pOut = NoParse
    /\ configChangeCallbacks = <<>>
    /\ handles = <<>>
    /\ saved = NoSave
    /\ masked = NoMask
    /\ formatted = NoFormat

NextOllama ==
    \/ Invoke(NoOptions)
    \/ \E b \in {[decodable |-> TRUE, data |-> d, errmsg |-> UNDEFINED] : d \in Payloads} :
            NetRespond(200, b)
    \/ BodyDecoded

SpecOllama == InitOllama /\ [][NextOllama]_vars

-----------------------------------------------------------------------------
(* Calls to a service with any authentication settings and headers of its own *)

\* h: no headers, a name the orchestrator never sets, names it may set, a
\* Content-Type, a name differing in case only
HeaderFamily ==
    {Loaded(IdOf(1), DefaultTimeout,
            <<[DefaultService EXCEPT !.provider = p, !.authType = a, !.isLocal = l,
                                     !.apiKey = k, !.url = u, !.headers = h]>>) :
        p \in Providers, a \in AuthTypes, l \in BOOLEAN, k \in {"", "key1"},
        u \in {OpenAIUrl, OpenRouterUrl}, h \in {{},
               {<<"X-Custom", "v">>},
               {<<"Authorization", "mine">>, <<"X-Custom", "v">>},
               {<<"api-key", "mine">>, <<"X-Title", "mine">>},
               {<<"x-goog-api-key", "mine">>, <<"HTTP-Referer", "mine">>},
               {<<"Content-Type", "text/plain">>},
               {<<"authorization", "mine">>}}}

InitHeaders ==
    /\ \E l \in HeaderFamily :
        /\ settings = l.settings
        /\ regs = [r \in RegRefs |-> IF r = "R0" THEN l.reg ELSE <<>>]
        /\ svcs = l.heap
    /\ call = IdleCall
    /\ net = IdleNet
    /\ notices = 0
    /\ api = NoApi
    /\ held = NoHeld
    /\ tab = OpenTab(settings, regs["R0"])
    /\ pIn = NoParseInput
    /\ pOut = NoParse
    /\ configChangeCallbacks = <<>>
    /\ handles = <<>>
    /\ saved = NoSave
    /\ masked = NoMask
    /\ formatted = NoFormat

NextHeaders ==
    \/ Invoke(NoOptions)
    \/ NetFail

SpecHeaders == InitHeaders /\ [][NextHeaders]_vars

-----------------------------------------------------------------------------
(* formatRequestBody applied to any arguments *)

InitFormat ==
    /\ settings = DefaultSettings
    /\ regs = [r \in RegRefs |-> IF r = "R0" THEN DefaultRegistry ELSE <<>>]
    /\ svcs = HeapOf(<<DefaultService>>)
    /\ call = IdleCall
    /\ net = IdleNet
    /\ notices = 0
    /\ api = NoApi
    /\ held = NoHeld
    /\ tab = OpenTab(settings, regs["R0"])
    /\ pIn = NoParseInput
    /\ pOut = NoParse
    /\ configChangeCallbacks = <<>>
    /\ handles = <<>>
    /\ saved = NoSave
    /\ masked = NoMask
    /\ formatted \in
            [provider : Providers, model : {"", "m1"}, prompt : {"", "hello"},
             systemPrompt : {"", "Be terse."}, temperature : {0, DefaultTemperature, 20},
             maxTokens : {0, 100}, done : {FALSE}, out : {[none |-> TRUE]}]

\* this.formatRequestBody(provider, model, prompt, systemPrompt, temperature, maxTokens)
Format ==
    /\ ~formatted.done
    /\ formatted' =
        [formatted EXCEPT
            !.done = TRUE,
            !.out = formatRequestBody(formatted.provider, formatted.model,
                                      formatted.prompt, formatted.systemPrompt,
                                      formatted.temperature, formatted.maxTokens)]
    /\ UNCHANGED <<settings, regs, svcs, call, net, notices, api, held, tab, pIn,
                   pOut, configChangeCallbacks, handles, saved, masked>>

SpecFormat == InitFormat /\ [][Format]_vars

-----------------------------------------------------------------------------
(* The settings tab's fields edited while a call is in flight:
   src/main.ts 769-778, 1003-1014 *)

\* parseInt(value) (1009): leading white space, a sign, then digits up to the
\* first other character; nan when there is no digit
parseInt(value) ==
    LET digits == <<"0", "1", "2", "3", "4", "5", "6", "7", "8", "9">>
        IsDigit(c) == \E d \in 1..Len(digits) : digits[d] = c
        DigitOf(c) == (CHOOSE d \in 1..Len(digits) : digits[d] = c) - 1
        RECURSIVE ParseDigits(_, _, _)
        ParseDigits(s, i, acc) ==
            IF i > Len(s) \/ ~IsDigit(s[i]) THEN [n |-> acc, next |-> i]
            ELSE ParseDigits(s, i + 1, acc * 10 + DigitOf(s[i]))
        t == TrimStart(value)
        signed == t # <<>> /\ t[1] \in {"-", "+"}
        first == IF signed THEN 2 ELSE 1
        r == ParseDigits(t, first, 0)
    IN  IF r.next = first THEN [nan |-> TRUE, n |-> 0]
        ELSE [nan |-> FALSE, n |-> IF signed /\ t[1] = "-" THEN 0 - r.n ELSE r.n]

\* getDefaultEndpoint (629-660), a url as scheme, host and path
getDefaultEndpoint(provider) ==
    CASE provider = "openai" -> OpenAIUrl
      [] provider = "anthropic" -> <<"https://", "api.anthropic.com", "/v1/messages">>
      [] provider = "google" ->
            <<"https://", "generativelanguage.googleapis.com",
              "/v1/models/gemini-pro:generateContent">>
      [] provider = "meta" -> <<"https://", "llama-api.meta.com", "/v1/chat/completions">>
      [] provider = "mistral" -> <<"https://", "api.mistral.ai", "/v1/chat/completions">>
      [] provider = "cohere" -> <<"https://", "api.cohere.ai", "/v1/generate">>
      [] provider = "qwen" ->
            <<"https://", "dashscope.aliyuncs.com",
              "/api/v1/services/aigc/text-generation/generation">>
      [] provider = "deepseek" -> <<"https://", "api.deepseek.com", "/v1/chat/completions">>
      [] provider = "perplexity" -> <<"https://", "api.perplexity.ai", "/chat/completions">>
      [] provider = "ollama" -> LocalUrl
      [] provider = "lmstudio" -> <<"http://", "localhost", ":1234", "/v1/chat/completions">>
      [] provider = "localai" -> <<"http://", "localhost", ":8080", "/v1/chat/completions">>
      [] provider = "koboldai" -> <<"http://", "localhost", ":5001", "/api/v1/generate">>
      [] OTHER -> <<>>

\* getDefaultAuthType (663-676)
getDefaultAuthType(provider) ==
    CASE provider = "azure" -> "api-key"
      [] provider = "custom" -> "custom"
      [] provider \in {"ollama", "lmstudio", "localai", "koboldai"} -> "none"
      [] OTHER -> "bearer"

\* 1008-1014: the Request timeout field's onChange; a text that is no positive
\* integer changes nothing and saves nothing
TabSetTimeout(value) ==
    /\ tab.quiet < MaxPending
    /\ LET numValue == parseInt(value) IN
        IF ~numValue.nan /\ numValue.n > 0
        THEN /\ settings' = [settings EXCEPT !.timeout = numValue.n * 1000]
             /\ tab' = [tab EXCEPT !.quiet = @ + 1]
        ELSE UNCHANGED <<settings, tab>>
    /\ UNCHANGED <<regs, svcs, call, net, notices, api, held, pIn, pOut,
                   configChangeCallbacks, handles, saved, masked, formatted>>

\* 771-778: the Provider dropdown's onChange, on the service object the panel
\* was rendered with
TabSetProvider(value) ==
    /\ tab.pending < MaxPending
    /\ tab.shown.svc # NoRef
    /\ svcs' = [svcs EXCEPT ![tab.shown.svc] =
                    [@ EXCEPT !.provider = value,
                              !.url = getDefaultEndpoint(value),
                              !.authType = getDefaultAuthType(value),
                              !.isLocal = value \in {"ollama", "lmstudio", "localai",
                                                      "koboldai"}]]
    /\ tab' = [tab EXCEPT !.pending = @ + 1]
    /\ UNCHANGED <<settings, regs, call, net, notices, api, held, pIn, pOut,
                   configChangeCallbacks, handles, saved, masked, formatted>>

\* the saveSettings of a handler that renders nothing afterwards is done
SaveDoneQuiet(throwers) ==
    /\ tab.quiet > 0
    /\ saved' = saveSettings(TRUE, configChangeCallbacks, settings, throwers)
    /\ tab' = [tab EXCEPT !.quiet = @ - 1]
    /\ UNCHANGED <<settings, regs, svcs, call, net, notices, api, held, pIn, pOut,
                   configChangeCallbacks, handles, masked, formatted>>

InitEdit ==
    /\ settings = DefaultSettings
    /\ regs = [r \in RegRefs |-> IF r = "R0" THEN DefaultRegistry ELSE <<>>]
    /\ svcs = HeapOf(<<[DefaultService EXCEPT !.apiKey = "key1"]>>)
    /\ call = IdleCall
    /\ net = IdleNet
    /\ notices = 0
    /\ api = NoApi
    /\ held = NoHeld
    /\ tab = OpenTab(settings, regs["R0"])
    /\ pIn = NoParseInput
    /\ pOut = NoParse
    /\ configChangeCallbacks = <<>>
    /\ handles = <<>>
    /\ saved = NoSave
    /\ masked = NoMask
    /\ formatted = NoFormat

NextEdit ==
    \/ \E value \in {<<"5">>, <<" ", "2", "s">>, <<"0">>, <<"-", "1">>, <<"a">>, <<>>} :
            TabSetTimeout(value)
    \/ \E value \in {"openai", "anthropic", "ollama", "custom"} : TabSetProvider(value)
    \/ SaveDone({})
    \/ SaveDoneQuiet({})
    \/ SaveFail
    \/ Invoke(NoOptions)
    \/ \E st \in {200, 500},
          d \in {EmptyObject,
                 Obj("choices0.message.content" :> Str(<<"h", "i">>)),
                 Obj("content0.text" :> Str(<<"h", "i">>))} :
            NetRespond(st, [decodable |-> TRUE, data |-> d, errmsg |-> UNDEFINED])
    \/ NetFail
    \/ TimerFire
    \/ FetchAbort
    \/ ErrorBodyDecoded
    \/ BodyDecoded

SpecEdit == InitEdit /\ [][NextEdit]_vars

-----------------------------------------------------------------------------
(* The normalizer's specification: parseResponse applied to any input *)

InitParse ==
    /\ settings = DefaultSettings
    /\ regs = [r \in RegRefs |-> IF r = "R0" THEN DefaultRegistry ELSE <<>>]
    /\ svcs = HeapOf(<<DefaultService>>)
    /\ call = IdleCall
    /\ net = IdleNet
    /\ notices = 0
    /\ api = NoApi
    /\ held = NoHeld
    /\ tab = OpenTab(settings, regs["R0"])
    /\ pIn \in [provider : Providers, data : Payloads]
    /\ pOut = NoParse
    /\ configChangeCallbacks = <<>>
    /\ handles = <<>>
    /\ saved = NoSave
    /\ masked = NoMask
    /\ formatted = NoFormat

Parse ==
    /\ ~pOut.done
    /\ pOut' = [done |-> TRUE, r |-> parseResponse(pIn.provider, pIn.data)]
    /\ UNCHANGED <<settings, regs, svcs, call, net, notices, api, held, tab, pIn,
                 configChangeCallbacks, handles, saved, masked, formatted>>

SpecParse == InitParse /\ [][Parse]_vars

-----------------------------------------------------------------------------
(* Properties of the orchestrator *)

\* the call has settled
Settled == call.phase \in {"resolved", "rejected"}

\* the call has issued its request
Issued == call.phase # "idle" /\ net.issued > 0

\* the plugin's services object and the service the active id names
Registry == regs[settings.services]
ActiveRef == Lookup(Registry, settings.activeService)

\* the indices of the entries whose model is m
Matching(m) == {i \in 1..Len(Registry) : svcs[Registry[i].ref].model = m}

\* the first entry, in key order, whose model is m
FirstMatching(m) == Registry[CHOOSE i \in Matching(m) : \A j \in Matching(m) : i <= j].ref

\* the call asks for a model the active service does not have and another has
RoutingCase ==
    /\ call.options.model.some
    /\ ActiveRef # NoRef
    /\ call.options.model.v # svcs[ActiveRef].model
    /\ Matching(call.options.model.v) # {}

\* the request and the normalization are those of service ref
BuiltFrom(ref) ==
    /\ call.svc = ref
    /\ net.req = BuildRequest(settings, svcs[ref], Prompt, call.options)
    /\ net.req.url = svcs[ref].url
    /\ call.phase = "resolved" =>
        call.result.value = parseResponse(svcs[ref].provider, net.body.data).content

\* C1 as stated: whenever options.model is supplied, differs from the active
\* service's model and some entry has that model, the request is built from the
\* first such entry and not from the active service; with no matching entry the
\* active service is used.
C1_RoutingAsStated ==
    Issued =>
        /\ RoutingCase =>
            BuiltFrom(FirstMatching(call.options.model.v)) /\ call.svc # ActiveRef
        /\ (/\ call.options.model.some
            /\ ActiveRef # NoRef
            /\ Matching(call.options.model.v) = {}) => BuiltFrom(ActiveRef)

\* C1 amended: the same for a supplied model that is not the empty string; an
\* empty options.model is not routed and the active service is used.
C1_Routing ==
    Issued =>
        /\ (RoutingCase /\ call.options.model.v # "") =>
            BuiltFrom(FirstMatching(call.options.model.v)) /\ call.svc # ActiveRef
        /\ (/\ call.options.model.some
            /\ ActiveRef # NoRef
            /\ Matching(call.options.model.v) = {} \/ call.options.model.v = "")
                => BuiltFrom(ActiveRef)

\* two entries have the requested model, neither is the active one, and the
\* call was answered
C1_Witness ==
    /\ call.phase = "resolved"
    /\ RoutingCase
    /\ call.options.model.v = "m2"
    /\ Cardinality(Matching("m2")) = 2
    /\ call.svc # ActiveRef

\* C2 as stated: when the active id names no entry and no entry has the
\* requested model, the call rejects with the not-configured message and issues
\* no request, whether or not options.model is supplied.
C2_NotConfigured ==
    (/\ call.phase # "idle"
     /\ ActiveRef = NoRef
     /\ call.options.model.some => Matching(call.options.model.v) = {})
        => /\ call.result = Rejected(NotConfiguredMsg)
           /\ net.issued = 0

\* the service the call resolves to is not local and has an empty key
KeylessCase ==
    /\ call.phase # "idle"
    /\ LET r == ResolveService(settings, Registry, svcs, call.options) IN
        /\ r.k = "ret"
        /\ r.v # NoRef
        /\ ~svcs[r.v].isLocal
        /\ svcs[r.v].apiKey = ""

\* C3: a resolved service that is not local and has an empty apiKey makes the
\* call reject with 'API key is required for this service', whatever its
\* authType, and no request is issued.
C3_ApiKeyRequired ==
    KeylessCase =>
        /\ call.result = Rejected("API key is required for this service")
        /\ net.issued = 0
        /\ net.req = NoRequest

C3_Witness ==
    /\ KeylessCase
    /\ svcs[ActiveRef].authType = "none"
    /\ call.phase = "rejected"

\* C4 as stated: a call that has failed has emitted exactly one notification,
\* whatever the failure, and a call that succeeded none.
C4_OneNotice ==
    /\ call.phase = "rejected" => notices = 1
    /\ call.phase = "resolved" => notices = 0

\* `${ms / 1000}` for the timeouts of the model, written out
SecondsText(ms) ==
    CASE ms = 50 -> "0.05"
      [] ms = 1500 -> "1.5"
      [] ms = 10000 -> "10"
      [] OTHER -> "?"

TimedOut ==
    /\ call.phase = "rejected"
    /\ net.aborted
    /\ call.result.msg =
        "Request timed out after " \o SecondsText(settings.timeout) \o " seconds"

\* C5: a request the network never answers does not stay pending: its timer
\* fires, the signal is aborted and the call rejects with 'Request timed out
\* after <timeout/1000> seconds'.  The network answering, by a response or by a
\* failure, is the only other way out of the wait.
C5_Timeout ==
    /\ [](call.phase = "fetching" => call.armed = settings.timeout)
    /\ [](call.phase = "fetching" /\ ~net.aborted => call.timerOn)
    /\ (call.phase = "fetching") ~>
            \/ TimedOut
            \/ call.phase \in {"decoding", "decodingErr"}
            \/ call.phase = "rejected" /\ call.result.msg = NetworkMsg

C5_Witness == TimedOut /\ settings.timeout = 50

\* `HTTP error! status: ${response.status}` for the statuses of the model
StatusText(st) ==
    CASE st = 401 -> "HTTP error! status: 401"
      [] st = 500 -> "HTTP error! status: 500"
      [] OTHER -> "?"

\* C6: on a non-success status the call rejects, the normalizer is never run,
\* and the message is the body's error.message when the body decodes and
\* carries a non-empty one, otherwise 'HTTP error! status: <code>'.
C6_HttpError ==
    (net.status # 0 /\ ~Ok(net.status)) =>
        /\ call.parsed = 0
        /\ call.phase \in {"decodingErr", "rejected"}
        /\ call.phase = "rejected" =>
            call.result.msg =
                IF net.body.decodable /\ net.body.errmsg \notin {UNDEFINED, ""}
                THEN net.body.errmsg
                ELSE StatusText(net.status)

\* both branches: an embedded message, and the fallback on an undecodable body
C6_Witness ==
    /\ call.phase = "rejected"
    /\ net.status = 401
    /\ call.result.msg = "Invalid API key"
    /\ net.body.data # EmptyObject

\* the call was answered with a success status and a body that decoded
Answered == Settled /\ Ok(net.status) /\ net.body.decodable

Normalized == parseResponse(svcs[call.svc].provider, net.body.data)

\* no property the normalizer reads is truthy in data
Shapeless(data) == IsNull(data) \/ \A q \in Paths : ~Truthy(data[q])

UnableText == "Failed to parse response: Unable to parse response format"

\* the call resolves with the normalizer's content exactly when it reported no
\* error, and otherwise rejects with the error it reported
FollowsNormalizer ==
    /\ call.parsed = 1
    /\ ~Normalized.error.some =>
        call.phase = "resolved" /\ call.result.value = Normalized.content
    /\ Normalized.error.some =>
        call.phase = "rejected" /\ call.result.msg = Normalized.error.v

\* C8 as stated: and for a body matching no known shape the message is exactly
\* 'Failed to parse response: Unable to parse response format'.
C8_AsStated ==
    Answered =>
        /\ FollowsNormalizer
        /\ Shapeless(net.body.data) =>
            call.phase = "rejected" /\ call.result.msg = UnableText

\* C8 amended: that message is the one for the providers normalized by the
\* fallback probe, custom and azure, and a body that is an object.
C8_NormalizerError ==
    Answered =>
        /\ FollowsNormalizer
        /\ (/\ Shapeless(net.body.data)
            /\ ~IsNull(net.body.data)
            /\ svcs[call.svc].provider \in {"custom", "azure"}) =>
                call.phase = "rejected" /\ call.result.msg = UnableText

C8_Witness ==
    /\ Answered
    /\ svcs[call.svc].provider = "custom"
    /\ net.body.data = EmptyObject
    /\ call.result = Rejected(UnableText)

-----------------------------------------------------------------------------
(* Properties of the normalizer *)

\* the paths provider's case of parseResponse is documented to read
ExpectedPaths(provider) ==
    CASE provider \in {"openai", "meta", "mistral", "deepseek", "perplexity",
                       "lmstudio", "localai"} -> {"choices0.message.content"}
      [] provider = "anthropic" -> {"content0.text"}
      [] provider = "google" -> {"candidates0.content.parts0.text"}
      [] provider = "cohere" -> {"generations0.text"}
      [] provider = "qwen" -> {"output.text"}
      [] provider = "ollama" -> {"message.content", "response"}
      [] provider = "koboldai" -> {"results0.text"}
      [] OTHER -> {"choices0.message.content", "output.text", "response",
                   "message.content", "text", "content", "content0.text",
                   "choices0.content", "choices0.text"}

\* data has none of the keys provider expects
Keyless(provider, data) ==
    IsNull(data) \/ \A q \in ExpectedPaths(provider) : data[q] = Undef

ErrorVariant(r) == r.content = <<>> /\ r.error.some /\ r.error.v # ""

\* C7 as stated: parseResponse never raises, and for every provider a body with
\* none of the provider's keys yields the error variant.
C7_AsStated ==
    pOut.done =>
        /\ ~pOut.r.raised
        /\ Keyless(pIn.provider, pIn.data) => ErrorVariant(pOut.r)

\* C7 amended: for every provider but ollama; for ollama an object with neither
\* message.content nor response yields content "" and no error.
C7_NeverRaises ==
    pOut.done =>
        /\ ~pOut.r.raised
        /\ (Keyless(pIn.provider, pIn.data) /\ pIn.provider # "ollama")
            => ErrorVariant(pOut.r)
        /\ (Keyless(pIn.provider, pIn.data) /\ pIn.provider = "ollama"
                /\ ~IsNull(pIn.data))
            => pOut.r.content = <<>> /\ ~pOut.r.error.some

C7_Witness ==
    /\ pOut.done
    /\ pIn.provider = "koboldai"
    /\ pIn.data = Obj("response" :> Str(<<"h", "i">>))
    /\ ErrorVariant(pOut.r)

-----------------------------------------------------------------------------
(* Properties of the global API object *)

\* the plugin's settings as later API calls see them: the top-level fields, the
\* keys of the services object and the service under each
InternalView ==
    <<settings, Registry, [i \in 1..Len(Registry) |-> svcs[Registry[i].ref]]>>

\* C9 as stated: whatever a consumer writes to the object it got from
\* getCurrentConfiguration, nested entries included, the plugin's settings
\* are unchanged.
C9_Isolated == [][ConsumerWrite => InternalView' = InternalView]_vars

\* what isConfigured is to return: the active service is local, or the active
\* id and the active service's apiKey are both non-empty
ShouldBeConfigured ==
    \/ ActiveRef # NoRef /\ svcs[ActiveRef].isLocal
    \/ /\ settings.activeService \notin {"", UNDEFINED}
       /\ ActiveRef # NoRef
       /\ svcs[ActiveRef].apiKey # ""

\* C10 as stated: isConfigured returns that boolean in every state, also when
\* the active id names no entry, and never faults.
C10_Boolean == [][CallIsConfigured => api'.r = Ret(ShouldBeConfigured)]_vars

-----------------------------------------------------------------------------
(* Properties of the configuration-change callbacks *)

\* a saveSettings finishes in this step
SaveFinishes == tab'.pending < tab.pending

\* the number of calls the last saveSettings made to cb
TimesCalled(s, cb) == Cardinality({i \in 1..Len(s.calls) : s.calls[i].callback = cb})

\* C11: a saveSettings whose persist step succeeds calls every callback of the
\* Set exactly once, after the persist, with a copy of the settings, and does
\* not fail even if callbacks throw; one whose persist step fails calls none.
C11_Delivery ==
    [][SaveFinishes =>
        /\ saved'.calls # <<>> => saved'.persisted
        /\ saved'.persisted =>
            /\ ~saved'.rejected
            /\ \A cb \in Callbacks :
                TimesCalled(saved', cb) = IF Has(configChangeCallbacks, cb) THEN 1 ELSE 0
            /\ \A i \in 1..Len(saved'.calls) :
                saved'.calls[i].arg = getCurrentConfiguration(settings)
        /\ ~saved'.persisted => saved'.calls = <<>> /\ saved'.rejected]_vars

\* a save notified two callbacks, the first of which threw
C11_Witness ==
    /\ saved.op = "saved"
    /\ Len(saved.calls) = 2
    /\ saved.calls[1].threw
    /\ ~saved.rejected

\* the callback has a registration whose own unsubscribe function was not called
LiveRegistration(cb) ==
    \E i \in 1..Len(handles) : handles[i].callback = cb /\ ~handles[i].called

\* C12: a save calls a callback if and only if the callback has a registration
\* whose own unsubscribe function has not been called.
C12_Unsubscribe ==
    [][SaveFinishes /\ saved'.persisted =>
        \A cb \in Callbacks : TimesCalled(saved', cb) > 0 <=> LiveRegistration(cb)]_vars

-----------------------------------------------------------------------------
(* Properties of the per-call options *)

\* the values a request body carries for each option, wherever its dialect
\* puts them; the empty set when the body has no such field
TemperaturesOf(b) ==
    IF "temperature" \in DOMAIN b THEN {b.temperature} ELSE
    IF "generationConfig" \in DOMAIN b THEN {b.generationConfig.temperature} ELSE
    IF "parameters" \in DOMAIN b THEN {b.parameters.temperature} ELSE
    IF "options" \in DOMAIN b THEN {b.options.temperature} ELSE {}

MaxTokensOf(b) ==
    IF "max_tokens" \in DOMAIN b THEN {b.max_tokens} ELSE
    IF "generationConfig" \in DOMAIN b THEN {b.generationConfig.maxOutputTokens} ELSE
    IF "parameters" \in DOMAIN b THEN {b.parameters.max_tokens} ELSE
    IF "options" \in DOMAIN b THEN {b.options.num_predict} ELSE
    IF "max_length" \in DOMAIN b THEN {b.max_length} ELSE {}

ModelsOf(b) == IF "model" \in DOMAIN b THEN {b.model} ELSE {}

SystemMessages(ms) == {ms[i].content : i \in {j \in 1..Len(ms) : ms[j].role = "system"}}

\* a system message, a system field, or the head of a prompt that ends with
\* the user's turn
SystemPromptsOf(b) ==
    IF "system" \in DOMAIN b THEN {b.system} ELSE
    IF "messages" \in DOMAIN b THEN SystemMessages(b.messages) ELSE
    IF "input" \in DOMAIN b THEN SystemMessages(b.input.messages) ELSE
    IF "max_length" \in DOMAIN b
    THEN {s \in {DefaultSystemPrompt, "", "Be terse."} :
            b.prompt = s \o "\n\nUser: " \o Prompt \o "\nAssistant:"}
    ELSE {}

\* what the claim expects of each option of the call in flight
WantedTemperature == IF call.options.temperature.some THEN call.options.temperature.v
                     ELSE settings.temperature
WantedMaxTokens == IF call.options.maxTokens.some THEN call.options.maxTokens.v
                   ELSE settings.maxTokens
WantedModel == IF call.options.model.some THEN call.options.model.v
               ELSE svcs[call.svc].model
WantedSystemPrompt == IF call.options.systemPrompt.some THEN call.options.systemPrompt.v
                      ELSE "You are a helpful assistant."

\* the dialects whose body has no model field, and no place for a system prompt
ModelessProviders == {"google", "koboldai"}
SystemlessProviders == {"google", "cohere"}

\* an invokeAI call starts in this step
CallStarts == call.phase = "idle" /\ call'.phase # "idle"

\* C13 as stated: the body of every request carries all four values.
C13_AsStated ==
    Issued =>
        /\ TemperaturesOf(net.req.body) = {WantedTemperature}
        /\ MaxTokensOf(net.req.body) = {WantedMaxTokens}
        /\ ModelsOf(net.req.body) = {WantedModel}
        /\ SystemPromptsOf(net.req.body) = {WantedSystemPrompt}

\* the body of the request in flight carries the values, where its dialect has
\* the field
BodyCarriesOptions ==
    /\ TemperaturesOf(net.req.body) = {WantedTemperature}
    /\ MaxTokensOf(net.req.body) = {WantedMaxTokens}
    /\ ModelsOf(net.req.body) =
        IF svcs[call.svc].provider \in ModelessProviders THEN {} ELSE {WantedModel}
    /\ SystemPromptsOf(net.req.body) =
        IF svcs[call.svc].provider \in SystemlessProviders THEN {}
        ELSE {WantedSystemPrompt}

\* C13: the body carries the call's temperature and maxTokens, or the settings'
\* when absent, for every provider; the call's model, or the resolved service's,
\* for every provider but google and koboldai; the call's systemPrompt, or the
\* default one, for every provider but google and cohere; and the call changes
\* neither the settings nor any service.
C13_Override ==
    [][CallStarts =>
        /\ call'.phase = "fetching" => BodyCarriesOptions'
        /\ UNCHANGED <<settings, regs, svcs>>]_vars

\* a request whose temperature is the call's 0, not the settings' value
C13_Witness ==
    /\ Issued
    /\ call.options.temperature = Some(0)
    /\ settings.temperature # 0
    /\ TemperaturesOf(net.req.body) = {0}
    /\ ~call.options.maxTokens.some
    /\ MaxTokensOf(net.req.body) = {settings.maxTokens}

-----------------------------------------------------------------------------
(* Properties of the number of requests *)

\* the service the call in flight is to use: the first entry with the requested
\* model when that model is non-empty and not the active service's, otherwise
\* the active service
ServiceUsed ==
    IF RoutingCase /\ call.options.model.v # ""
    THEN FirstMatching(call.options.model.v)
    ELSE ActiveRef

\* the configuration checks pass for the call in flight
ChecksPass ==
    /\ ServiceUsed # NoRef
    /\ svcs[ServiceUsed].isLocal \/ svcs[ServiceUsed].apiKey # ""

\* C14: a call issues one request when the configuration checks pass and none
\* when they fail, and a call whose request failed is rejected with no further
\* request.
C14_OneRequest ==
    /\ net.issued <= 1
    /\ call.phase = "idle" => net.issued = 0
    /\ call.phase # "idle" => net.issued = IF ChecksPass THEN 1 ELSE 0
    /\ notices > 0 => call.phase = "rejected" /\ net.issued = 1

\* a call whose one request got a non-success status and was rejected
C14_Witness ==
    /\ call.phase = "rejected"
    /\ net.status = 500
    /\ notices = 1
    /\ net.issued = 1

-----------------------------------------------------------------------------
(* Properties of the settings tab *)

\* C15: the plugin's services object has at least one entry in every state
\* reached by adding, deleting and selecting services.
C15_NonEmpty == Len(regs[settings.services]) >= 1

-----------------------------------------------------------------------------
(* Properties of maskApiKey *)

\* the first four characters, three dots, the last four characters
FirstAndLastFour(k) ==
    [i \in 1..11 |->
        IF i <= 4 THEN k[i] ELSE IF i <= 7 THEN "." ELSE k[Len(k) - (11 - i)]]

\* C16: a key of at most 8 characters is returned as it is; a longer key gives
\* its first 4 characters, '...', and its last 4 characters.
C16_Mask ==
    masked.done =>
        /\ Len(masked.key) <= 8 => masked.out = masked.key
        /\ Len(masked.key) > 8 => masked.out = FirstAndLastFour(masked.key)
        /\ masked.key = ExampleKey =>
            masked.out = <<"s", "k", "-", "A", ".", ".", ".", "I", "J", "K", "L">>

\* the documented example was masked
C16_Witness ==
    /\ masked.done
    /\ masked.key = ExampleKey
    /\ masked.out # masked.key

-----------------------------------------------------------------------------
(* Properties of the fallback probe and of the result's shape *)

\* C17: for every payload, parseResponse('azure', p) equals
\* parseResponse('custom', p).
C17_AzureAsCustom ==
    (pOut.done /\ pIn.provider = "azure") =>
        pOut.r = parseResponse("custom", pIn.data)

\* the fields of the probe, in the documented order
ProbeOrder ==
    <<"choices0.message.content", "output.text", "response", "message.content",
      "text", "content", "choices0.content", "choices0.text">>

\* the value of the i-th field of the probe in data
ProbeValue(data, i) ==
    IF ProbeOrder[i] = "content" THEN TopContent(data) ELSE data[ProbeOrder[i]]

\* the fields of the probe that are present, and those holding a truthy value
PresentFields(data) == {i \in 1..Len(ProbeOrder) : ProbeValue(data, i) # Undef}
TruthyFields(data) == {i \in 1..Len(ProbeOrder) : Truthy(ProbeValue(data, i))}

Earliest(S) == CHOOSE i \in S : \A j \in S : i <= j

\* parseResponse('custom', ...) has returned for an object
CustomParsed == pOut.done /\ pIn.provider = "custom" /\ ~IsNull(pIn.data)

\* C18 as stated: when two or more fields of the probe are present, the content
\* is the trimmed value of the earliest present one.
C18_AsStated ==
    (CustomParsed /\ Cardinality(PresentFields(pIn.data)) >= 2) =>
        /\ ~pOut.r.error.some
        /\ pOut.r.content = Trim(ProbeValue(pIn.data, Earliest(PresentFields(pIn.data))).s)

\* C18 amended: a field counts when its value is truthy, an empty string being
\* skipped; when two or more count, the earliest decides: its trimmed value if
\* it is a string, the error variant if it is not.
C18_ProbeOrder ==
    (CustomParsed /\ Cardinality(TruthyFields(pIn.data)) >= 2) =>
        LET v == ProbeValue(pIn.data, Earliest(TruthyFields(pIn.data))) IN
        IF v.t = "str"
        THEN ~pOut.r.error.some /\ pOut.r.content = Trim(v.s)
        ELSE ErrorVariant(pOut.r)

\* response and top-level text are both strings and response won
C18_Witness ==
    /\ CustomParsed
    /\ pIn.data = Obj("response" :> Str(<<" ", "o", "k", " ">>) @@ "text" :> Str(<<"h", "i">>))
    /\ pOut.r.content = <<"o", "k">>
    /\ ~pOut.r.error.some

\* the string neither starts nor ends with white space
IsTrimmed(s) == s = <<>> \/ (~IsSpace(s[1]) /\ ~IsSpace(s[Len(s)]))

\* C19 as stated: a result is either non-empty trimmed content with no error, or
\* a non-empty error with content "".
C19_AsStated ==
    pOut.done =>
        \/ pOut.r.content # <<>> /\ IsTrimmed(pOut.r.content)
                /\ ~pOut.r.error.some
        \/ ErrorVariant(pOut.r)

\* C19 amended: a result is either trimmed content, possibly empty, with no
\* error, or a non-empty error with content ""; never an error with content.
C19_Variants ==
    pOut.done =>
        /\ ~pOut.r.raised
        /\ IsTrimmed(pOut.r.content)
        /\ pOut.r.error.some => pOut.r.error.v # "" /\ pOut.r.content = <<>>

\* a blank string where the provider's text is expected: content "" and no error
C19_Witness ==
    /\ pOut.done
    /\ pIn.provider = "openai"
    /\ pIn.data = Obj("choices0.message.content" :> Str(<<" ">>))
    /\ pOut.r.content = <<>>
    /\ ~pOut.r.error.some

-----------------------------------------------------------------------------
(* Properties of the ollama case *)

\* an ollama call was answered with a success status; its two fields
OllamaAnswered == Answered /\ svcs[call.svc].provider = "ollama"
MessageContent == net.body.data["message.content"]
ResponseField == net.body.data["response"]

ContentVariant(r, s) == r.content = s /\ ~r.error.some

\* the call resolved with s and no Notice was created
ResolvedQuietly(s) == call.result = Resolved(s) /\ notices = 0

HasText(v) == v.t = "str" /\ \E i \in 1..Len(v.s) : ~IsSpace(v.s[i])

-----------------------------------------------------------------------------
(* Properties of the request headers *)

\* the service of the call in flight
CallService == svcs[call.svc]

\* Content-Type: application/json merged with the service's own headers
MergedHeaders(svc) ==
    svc.headers \cup
        (IF \E p \in svc.headers : p[1] = "Content-Type" THEN {}
         ELSE {<<"Content-Type", "application/json">>})

\* the names of the headers the orchestrator may synthesize
AuthHeaderNames == {"Authorization", "api-key", "x-goog-api-key", "HTTP-Referer", "X-Title"}

\* the entries of the request's headers that are not the service's own
Synthesized == net.req.headers \ MergedHeaders(CallService)

\* C21: a local service passes the API-key check whatever its authType and key,
\* and its request's headers are exactly Content-Type merged with its own
\* headers.
C21_Local ==
    (call.phase # "idle" /\ svcs[ActiveRef].isLocal) =>
        /\ net.issued = 1
        /\ call.result.msg # ApiKeyMsg
        /\ net.req.headers = MergedHeaders(CallService)
        /\ \A p \in net.req.headers : p[1] \in AuthHeaderNames => p \in CallService.headers

\* a local service with a bearer authType, no key and an Authorization header
\* of its own
C21_Witness ==
    /\ Issued
    /\ CallService.isLocal
    /\ CallService.authType = "bearer"
    /\ CallService.apiKey = ""
    /\ <<"Authorization", "mine">> \in net.req.headers

\* the names the claim says are synthesized for a non-local service
ExpectedAuthNames(svc) ==
    CASE svc.authType = "bearer" ->
            {"Authorization"} \cup
                (IF Includes(svc.url, "openrouter.ai") THEN {"HTTP-Referer", "X-Title"} ELSE {})
      [] svc.authType = "api-key" ->
            IF svc.provider = "google" THEN {"x-goog-api-key"} ELSE {"api-key"}
      [] OTHER -> {}

\* C22: for a non-local service the synthesized headers are those of its
\* authType, provider and url, the key being the value of Authorization (after
\* 'Bearer '), api-key and x-goog-api-key.
C22_AuthHeaders ==
    (Issued /\ ~CallService.isLocal) =>
        /\ Names(Synthesized) = ExpectedAuthNames(CallService)
        /\ \A p \in Synthesized :
            /\ p[1] = "Authorization" => p[2] = "Bearer " \o CallService.apiKey
            /\ p[1] \in {"api-key", "x-goog-api-key"} => p[2] = CallService.apiKey

\* a google service with authType api-key, and an azure one
C22_Witness ==
    /\ Issued
    /\ ~CallService.isLocal
    /\ CallService.provider = "google"
    /\ CallService.authType = "api-key"
    /\ <<"x-goog-api-key", "key1">> \in net.req.headers
    /\ "api-key" \notin Names(net.req.headers)

\* the names synthesized for the call in flight
SynthesizedNames ==
    IF CallService.isLocal THEN {} ELSE ExpectedAuthNames(CallService)

\* C23: every header of the service is sent unchanged unless its name is one the
\* orchestrator synthesizes for this call, in which case the orchestrator's
\* value is sent; the service's Content-Type replaces the default.
C23_Precedence ==
    Issued =>
        /\ \A p \in CallService.headers :
            IF p[1] \in SynthesizedNames
            THEN \E q \in Synthesized : q[1] = p[1] /\ q[2] # p[2]
            ELSE p \in net.req.headers
        /\ \A p, q \in net.req.headers : p[1] = q[1] => p = q
        /\ \A p \in net.req.headers :
            p[1] = "Content-Type" =>
                p[2] = IF \E q \in CallService.headers : q[1] = "Content-Type"
                       THEN "text/plain" ELSE "application/json"

\* the service's own Authorization was replaced and its X-Custom kept
C23_Witness ==
    /\ Issued
    /\ CallService.headers = {<<"Authorization", "mine">>, <<"X-Custom", "v">>}
    /\ <<"Authorization", "Bearer key1">> \in net.req.headers
    /\ <<"Authorization", "mine">> \notin net.req.headers
    /\ <<"X-Custom", "v">> \in net.req.headers

-----------------------------------------------------------------------------
(* Properties of formatRequestBody *)

\* the tags documented to share the OpenAI chat shape
OpenAIShaped ==
    {"openai", "meta", "mistral", "deepseek", "perplexity", "lmstudio", "localai",
     "azure", "custom"}

SystemTurn(f) == [role |-> "system", content |-> f.systemPrompt]
UserTurn(f) == [role |-> "user", content |-> f.prompt]

\* the documented body for the arguments f
DocumentedBody(f) ==
    CASE f.provider \in OpenAIShaped ->
            [model |-> f.model, messages |-> <<SystemTurn(f), UserTurn(f)>>,
             temperature |-> f.temperature, max_tokens |-> f.maxTokens]
      [] f.provider = "anthropic" ->
            [model |-> f.model, messages |-> <<UserTurn(f)>>, system |-> f.systemPrompt,
             max_tokens |-> f.maxTokens, temperature |-> f.temperature]
      [] f.provider = "google" ->
            [contents |-> <<[role |-> "user", parts |-> <<[text |-> f.prompt]>>]>>,
             generationConfig |->
                [temperature |-> f.temperature, maxOutputTokens |-> f.maxTokens],
             safetySettings |-> <<>>]
      [] f.provider = "cohere" ->
            [model |-> f.model, prompt |-> f.prompt, temperature |-> f.temperature,
             max_tokens |-> f.maxTokens, return_likelihoods |-> "NONE"]
      [] f.provider = "qwen" ->
            [model |-> f.model, input |-> [messages |-> <<SystemTurn(f), UserTurn(f)>>],
             parameters |-> [temperature |-> f.temperature, max_tokens |-> f.maxTokens]]
      [] f.provider = "ollama" ->
            [model |-> f.model, messages |-> <<SystemTurn(f), UserTurn(f)>>,
             stream |-> FALSE,
             options |-> [temperature |-> f.temperature, num_predict |-> f.maxTokens]]
      [] f.provider = "koboldai" ->
            [prompt |-> f.systemPrompt \o "\n\nUser: " \o f.prompt \o "\nAssistant:",
             max_length |-> f.maxTokens, temperature |-> f.temperature,
             stop_sequence |-> <<"\nUser:", "\nHuman:">>, max_context_length |-> 4096]

\* C24: formatRequestBody returns a body for every provider tag: the OpenAI chat
\* shape for openai, meta, mistral, deepseek, perplexity, lmstudio, localai,
\* azure and custom, and the documented shape of its own for each other tag;
\* google and koboldai carry no model, google and cohere no system prompt.
C24_Bodies ==
    formatted.done =>
        /\ DOMAIN formatted.out # {}
        /\ "none" \notin DOMAIN formatted.out
        /\ formatted.out = DocumentedBody(formatted)
        /\ formatted.provider \in {"google", "koboldai"} => "model" \notin DOMAIN formatted.out
        /\ formatted.provider \in {"google", "cohere"} =>
            SystemPromptsOf(formatted.out) = {}

\* azure, which has no case of its own, got the OpenAI chat shape
C24_Witness ==
    /\ formatted.done
    /\ formatted.provider = "azure"
    /\ formatted.temperature = 0
    /\ DOMAIN formatted.out = {"model", "messages", "temperature", "max_tokens"}
    /\ formatted.out.messages[1].role = "system"

-----------------------------------------------------------------------------
(* Properties of the call's suspension and its timer *)

\* the call is suspended at an await: of fetch (468), or of response.json()
\* (478, 483)
Suspended == call.phase \in {"fetching", "decoding", "decodingErr"}

\* the call's timer is armed, or has fired and its abort is being delivered
TimerRacing == call.timerOn \/ net.aborted

\* C25: from the request to the call's settling the call is never suspended
\* with its timer disarmed, and so every call that issued a request eventually
\* resolves or rejects.
C25_TimerRace == [](Suspended => TimerRacing) /\ (Issued ~> Settled)

-----------------------------------------------------------------------------
(* Properties of a call during which the settings are edited *)

\* `${ms / 1000}` for the timeouts the model's settings take, written out
ArmedSecondsText(ms) ==
    CASE ms = 2000 -> "2"
      [] ms = 5000 -> "5"
      [] ms = 10000 -> "10"
      [] OTHER -> "?"

\* the call was rejected after its timer aborted the request
RejectedByTimeout == call.phase = "rejected" /\ net.aborted

\* C26: the seconds stated by a timeout rejection are those of the timeout the
\* call's timer was armed with.
C26_ArmedTimeout ==
    RejectedByTimeout =>
        call.result.msg =
            "Request timed out after " \o ArmedSecondsText(call.armed) \o " seconds"

\* C27: the provider tag the response is normalized with is the one the request
\* body was formatted with.
C27_SameDialect ==
    call.parsedAs # "" => call.parsedAs = call.formattedAs

-----------------------------------------------------------------------------
(* Properties of the registry under the settings tab's handlers *)

\* C28: settings.activeService is always a key of settings.services, whatever
\* the order in which the select, add and delete handlers run.
C28_ActiveExists ==
    Lookup(Registry, settings.activeService) # NoRef

\* a step of the Add Service handler: it allocates a service object
AddStep == \E r \in SvcRefs : svcs[r] = Free /\ svcs'[r] # Free

\* C29: every Add Service step stores its entry under an id the registry did
\* not have: the registry has exactly one more entry afterwards and every entry
\* it had is unchanged, also for two adds within the same clock millisecond.
C29_FreshId ==
    [][AddStep =>
        /\ Lookup(Registry, settings'.activeService) = NoRef
        /\ Len(regs'[settings'.services]) = Len(Registry) + 1
        /\ \A i \in 1..Len(Registry) : regs'[settings'.services][i] = Registry[i]]_vars

====
